---- MODULE Spec2Model ----
(***************************************************************************)
(* Model of kilo.c: raw-mode lifecycle, window-size resolution, the        *)
(* escape-sequence decoder, cursor dispatch and the refresh loop.          *)
(* Bytes are their integer codes; the terminal's pending input is a queue. *)
(***************************************************************************)
EXTENDS Integers, Sequences, FiniteSets, TLC

(* ---------------- bounds of the model ---------------- *)
\* largest number of rows / columns a position report carries
MaxDim == 2
\* longest first line of the opened file, before stripping the line ending
MaxLine == 3
\* consecutive empty reads counted while editorReadKey waits for a byte
MaxIdle == 1
\* longest pending input drawn for the decoder specification
MaxStream == 4

(* ---------------- bytes ---------------- *)
ESC == 27
LBRACKET == 91
CAP_O == 79
TILDE == 126
SEMI == 59
CAP_R == 82
CH_0 == 48
CH_9 == 57
CH_A == 65
CH_B == 66
CH_C == 67
CH_D == 68
CH_F == 70
CH_H == 72
CH_q == 113
CH_x == 120
CH_SP == 32
CH_MINUS == 45
CH_LF == 10
CH_CR == 13
HIGH_BYTE == 200

Digits == CH_0 .. CH_9

\* CTRL_KEY(k) ((k) & 0x1f)
CTRL_KEY(k) == k % 32

(* ---------------- enum editorKey ---------------- *)
ARROW_LEFT == 1000
ARROW_RIGHT == 1001
ARROW_UP == 1002
ARROW_DOWN == 1003
DEL_KEY == 1004
HOME_KEY == 1005
END_KEY == 1006
PAGE_UP == 1007
PAGE_DOWN == 1008

NavKeys == ARROW_LEFT .. PAGE_DOWN

(* ---------------- struct termios ---------------- *)
\* CS8 is the two-bit character-size mask value with both bits set
CS8 == {"CSIZE_b0", "CSIZE_b1"}

\* E.orig_termios before tcgetattr: a global, hence zero-initialised
ZeroTermios ==
  [iflag |-> {}, oflag |-> {}, cflag |-> {}, lflag |-> {}, vmin |-> 0, vtime |-> 0]

\* attribute sets the terminal may have when the program starts
CookedTermios ==
  [iflag |-> {"BRKINT", "ICRNL", "IXON", "IUTF8"},
   oflag |-> {"OPOST", "ONLCR"},
   cflag |-> {"CSIZE_b1", "CREAD"},
   lflag |-> {"ECHO", "ICANON", "IEXTEN", "ISIG", "ECHOE"},
   vmin |-> 1, vtime |-> 0]

NoEchoTermios ==
  [iflag |-> {"ICRNL"},
   oflag |-> {"OPOST"},
   cflag |-> {"CSIZE_b0", "CSIZE_b1", "CREAD"},
   lflag |-> {"ICANON", "ISIG"},
   vmin |-> 1, vtime |-> 0]

InitialTermios == {CookedTermios, NoEchoTermios}

\* the raw attribute set enableRawMode derives from the captured one
MakeRaw(t) ==
  [iflag |-> t.iflag \ {"BRKINT", "ICRNL", "INPCK", "ISTRIP", "IXON"},
   oflag |-> t.oflag \ {"OPOST"},
   cflag |-> t.cflag \cup CS8,
   lflag |-> t.lflag \ {"ECHO", "ICANON", "IEXTEN", "ISIG"},
   vmin |-> 0, vtime |-> 1]

\* variant: the attributes in force are handed back instead of the saved ones
RestoreArg_current(orig, cur) == cur

\* the attribute set disableRawMode hands to tcsetattr
RestoreArg(orig, cur) == orig

(* ---------------- state ---------------- *)
VARIABLES
  pc,            \* position of main: start, init, open, refresh, readkey, exit, done, crashed
  tty,           \* attributes of the terminal device
  orig_termios,  \* E.orig_termios
  hooked,        \* disableRawMode is registered with atexit
  cx, cy, screenrows, screencols, numrows, row,   \* struct editorConfig E
  tin,           \* bytes pending on the terminal (descriptor 0)
  ein,           \* bytes pending on descriptor 2 when it is another device
  shared,        \* descriptor 2 is the terminal too
  lastKey,       \* the last call of editorReadKey: bytes read, cut short, value returned
  idle,          \* empty reads seen by the pending editorReadKey call
  firstRead,     \* what the latest such read returned: n and errno
  trail,         \* shutdown events: writes, perror, restore attempts, process end
  status,        \* argument of exit; the exit status once pc = "done"
  captures,      \* calls of tcgetattr
  restores,      \* calls of tcsetattr with E.orig_termios
  probe,         \* what getWindowSize met: short writes, shape of the reply
  frames,        \* 0 until a frame is written, then 1
  frame,         \* the bytes of the last frame written
  charSigned,    \* plain char is a signed type in this build
  tty0,          \* attributes of the terminal device when the process started
  captured       \* tcgetattr returned 0
vars == <<pc, tty, orig_termios, hooked, cx, cy, screenrows, screencols, numrows, row,
          tin, ein, shared, charSigned, lastKey, idle, firstRead, trail, status, captures, restores,
          probe, frames, frame, tty0, captured>>

editor == <<cx, cy, screenrows, screencols, numrows, row>>
streams == <<tin, ein, shared, charSigned>>

NoKey == [bytes |-> <<>>, short |-> FALSE, key |-> 0, err |-> FALSE, src |-> <<>>]
NoRead == [n |-> 1, errno |-> "none"]
NoProbe == [corner |-> TRUE, request |-> TRUE, exact |-> TRUE, ran |-> FALSE]

(* ---------------- descriptors and read(2) ---------------- *)
STDIN_FILENO == 0
STDERR_FILENO == 2

\* the device a descriptor is open on: the terminal that enableRawMode set up, or another
Device(fd, sh) == IF (fd = STDIN_FILENO) \/ sh THEN "tty" ELSE "other"

\* read(fd, &c, 1) on the pending input s = [tin, ein]: n = 1 and the byte taken,
\* or n = 0 when nothing arrived within the VTIME wait; dev is the device read
ReadFd(fd, s, sh) ==
  LET onTty == Device(fd, sh) = "tty"
      q == IF onTty THEN s.tin ELSE s.ein
  IN IF q = <<>>
       THEN [n |-> 0, c |-> 0, s |-> s, dev |-> Device(fd, sh)]
       ELSE [n |-> 1, c |-> Head(q), dev |-> Device(fd, sh),
             s |-> IF onTty THEN [s EXCEPT !.tin = Tail(q)] ELSE [s EXCEPT !.ein = Tail(q)]]

\* the i-th read after the first one of editorReadKey; read number bad reports a
\* failure (-1) and takes no byte, bad = 0 means every read goes through
InnerRead(i, fd, s, sh, bad) ==
  IF i = bad THEN [n |-> -1, c |-> 0, s |-> s, dev |-> Device(fd, sh)] ELSE ReadFd(fd, s, sh)
BadReads == 0 .. 3

\* variant: the byte loses its top bit
CharToInt_strip(b, sgn) == b % 128

\* a char converted to int for the return value
CharToInt(b, sgn) == IF sgn /\ b >= 128 THEN b - 256 ELSE b

(* ---------------- editorReadKey ---------------- *)
\* variant: a read that returns no byte makes the call return 0
KeyResult_zero(k, rs, last, s) ==
  [key |-> IF last.n # 1 THEN 0 ELSE k, bytes |-> [i \in 1 .. Len(rs) |-> rs[i].c],
   short |-> last.n # 1, err |-> last.n = -1, src |-> [i \in 1 .. Len(rs) |-> rs[i].dev], s |-> s]

\* what a call returned: the value k, the reads rs that delivered a byte (their bytes and
\* devices), whether the last read attempted delivered none, and the input left pending
KeyResult(k, rs, last, s) ==
  [key |-> k, bytes |-> [i \in 1 .. Len(rs) |-> rs[i].c],
   short |-> last.n # 1, err |-> last.n = -1, src |-> [i \in 1 .. Len(rs) |-> rs[i].dev], s |-> s]

\* variant: the cases '7' and '8' are missing
TildeKey_short(d) ==
  CASE d = CH_0 + 1 -> HOME_KEY
    [] d = CH_0 + 3 -> DEL_KEY
    [] d = CH_0 + 4 -> END_KEY
    [] d = CH_0 + 5 -> PAGE_UP
    [] d = CH_0 + 6 -> PAGE_DOWN
    [] OTHER -> ESC

\* switch (seq[1]) after ESC '[' <digit> '~'
TildeKey(d) ==
  CASE d = CH_0 + 1 -> HOME_KEY
    [] d = CH_0 + 3 -> DEL_KEY
    [] d = CH_0 + 4 -> END_KEY
    [] d = CH_0 + 5 -> PAGE_UP
    [] d = CH_0 + 6 -> PAGE_DOWN
    [] d = CH_0 + 7 -> HOME_KEY
    [] d = CH_0 + 8 -> END_KEY
    [] OTHER -> ESC

\* switch (seq[1]) after ESC '['
BracketKey(l) ==
  CASE l = CH_A -> ARROW_UP
    [] l = CH_B -> ARROW_DOWN
    [] l = CH_C -> ARROW_RIGHT
    [] l = CH_D -> ARROW_LEFT
    [] l = CH_H -> HOME_KEY
    [] l = CH_F -> END_KEY
    [] OTHER -> ESC

\* variant: every letter but 'F' after ESC 'O' is Home
OKey_default(l) == IF l = CH_F THEN END_KEY ELSE HOME_KEY

\* switch (seq[1]) after ESC 'O'
OKey(l) ==
  CASE l = CH_H -> HOME_KEY
    [] l = CH_F -> END_KEY
    [] OTHER -> ESC

\* the part of editorReadKey after its first read returned the byte r0.c
editorReadKey(s, sh, sgn, bad) ==
  LET r0 == ReadFd(STDERR_FILENO, s, sh)
      c == r0.c
  IN IF c # ESC
       THEN KeyResult(CharToInt(c, sgn), <<r0>>, r0, r0.s)
       ELSE
         LET r1 == InnerRead(1, STDIN_FILENO, r0.s, sh, bad)
         IN IF r1.n # 1
              THEN KeyResult(ESC, <<r0>>, r1, r1.s)
              ELSE
                LET r2 == InnerRead(2, STDIN_FILENO, r1.s, sh, bad)
                IN IF r2.n # 1
                     THEN KeyResult(ESC, <<r0, r1>>, r2, r2.s)
                     ELSE IF r1.c = LBRACKET
                       THEN IF r2.c >= CH_0 /\ r2.c <= CH_9
                              THEN LET r3 == InnerRead(3, STDERR_FILENO, r2.s, sh, bad)
                                   IN IF r3.n # 1
                                        THEN KeyResult(ESC, <<r0, r1, r2>>, r3, r3.s)
                                        ELSE KeyResult(
                                               IF r3.c = TILDE THEN TildeKey(r2.c) ELSE ESC,
                                               <<r0, r1, r2, r3>>, r3, r3.s)
                              ELSE KeyResult(BracketKey(r2.c), <<r0, r1, r2>>, r2, r2.s)
                       ELSE IF r1.c = CAP_O
                              THEN KeyResult(OKey(r2.c), <<r0, r1, r2>>, r2, r2.s)
                              ELSE KeyResult(ESC, <<r0, r1, r2>>, r2, r2.s)

(* ---------------- editorMoveCursor, dispatch ---------------- *)
\* variant: Right and Down stop one place later
editorMoveCursor_late(key, e) ==
  CASE key = ARROW_LEFT  -> IF e.cx > 0 THEN [e EXCEPT !.cx = e.cx - 1] ELSE e
    [] key = ARROW_RIGHT -> IF e.cx < e.screencols THEN [e EXCEPT !.cx = e.cx + 1] ELSE e
    [] key = ARROW_UP    -> IF e.cy > 0 THEN [e EXCEPT !.cy = e.cy - 1] ELSE e
    [] key = ARROW_DOWN  -> IF e.cy < e.screenrows THEN [e EXCEPT !.cy = e.cy + 1] ELSE e
    [] OTHER -> e

\* e = [cx, cy, screenrows, screencols]
editorMoveCursor(key, e) ==
  CASE key = ARROW_LEFT  -> IF e.cx > 0 THEN [e EXCEPT !.cx = e.cx - 1] ELSE e
    [] key = ARROW_RIGHT -> IF e.cx < e.screencols - 1 THEN [e EXCEPT !.cx = e.cx + 1] ELSE e
    [] key = ARROW_UP    -> IF e.cy > 0 THEN [e EXCEPT !.cy = e.cy - 1] ELSE e
    [] key = ARROW_DOWN  -> IF e.cy < e.screenrows - 1 THEN [e EXCEPT !.cy = e.cy + 1] ELSE e
    [] OTHER -> e

\* temp = E.screenrows; while (temp--) editorMoveCursor(...)
RECURSIVE MoveTimes(_, _, _)
MoveTimes(temp, key, e) ==
  IF temp = 0 THEN e ELSE MoveTimes(temp - 1, key, editorMoveCursor(key, e))

\* variant: Delete takes the cursor one place to the left
Dispatch_del(c, e) ==
  CASE c = HOME_KEY -> [e EXCEPT !.cx = 0]
    [] c = END_KEY -> [e EXCEPT !.cx = e.screencols - 1]
    [] c = PAGE_UP \/ c = PAGE_DOWN ->
         MoveTimes(e.screenrows, IF c = PAGE_UP THEN ARROW_UP ELSE ARROW_DOWN, e)
    [] c \in {ARROW_UP, ARROW_DOWN, ARROW_LEFT, ARROW_RIGHT} -> editorMoveCursor(c, e)
    [] c = DEL_KEY -> editorMoveCursor(ARROW_LEFT, e)
    [] OTHER -> e

\* the switch of editorProcessKeypress for a key other than Ctrl-Q
Dispatch(c, e) ==
  CASE c = HOME_KEY -> [e EXCEPT !.cx = 0]
    [] c = END_KEY -> [e EXCEPT !.cx = e.screencols - 1]
    [] c = PAGE_UP \/ c = PAGE_DOWN ->
         MoveTimes(e.screenrows, IF c = PAGE_UP THEN ARROW_UP ELSE ARROW_DOWN, e)
    [] c \in {ARROW_UP, ARROW_DOWN, ARROW_LEFT, ARROW_RIGHT} -> editorMoveCursor(c, e)
    [] OTHER -> e

(* ---------------- getCursorPosition, getWindowSize ---------------- *)
\* char buf[32]
BufSize == 32

\* the read loop of getCursorPosition: bytes go to buf until 'R' is read, a read
\* returns no byte, or buf holds sizeof(buf) - 1 bytes; the 'R' is overwritten by NUL
RECURSIVE ReadReply(_, _)
ReadReply(q, buf) ==
  IF Len(buf) >= BufSize - 1 \/ q = <<>>
    THEN [buf |-> buf, rest |-> q]
    ELSE IF Head(q) = CAP_R
           THEN [buf |-> buf, rest |-> Tail(q)]
           ELSE ReadReply(Tail(q), Append(buf, Head(q)))

\* isspace
IsSpace(b) == b \in {CH_SP, 9, CH_LF, 11, 12, CH_CR}

RECURSIVE SkipSpace(_)
SkipSpace(str) ==
  IF str # <<>> /\ IsSpace(Head(str)) THEN SkipSpace(Tail(str)) ELSE str

\* the longest run of digits at the front of str, as a number
RECURSIVE ScanDigits(_, _, _)
ScanDigits(str, acc, n) ==
  IF str # <<>> /\ Head(str) \in Digits
    THEN ScanDigits(Tail(str), acc * 10 + (Head(str) - CH_0), n + 1)
    ELSE [val |-> acc, n |-> n, rest |-> str]

\* one %d conversion of sscanf: white space skipped, optional sign, digits
ScanInt(str) ==
  LET t == SkipSpace(str)
      neg == t # <<>> /\ Head(t) = CH_MINUS
      u == IF t # <<>> /\ Head(t) \in {CH_MINUS, 43} THEN Tail(t) ELSE t
      d == ScanDigits(u, 0, 0)
  IN [ok |-> d.n > 0, val |-> IF neg THEN 0 - d.val ELSE d.val, rest |-> d.rest]

\* sscanf(str, "%d;%d", rows, cols): the number of conversions and their values
Sscanf2(str) ==
  LET a == ScanInt(str)
  IN IF ~a.ok THEN [count |-> 0, rows |-> 0, cols |-> 0]
     ELSE IF a.rest = <<>> \/ Head(a.rest) # SEMI
            THEN [count |-> 1, rows |-> a.val, cols |-> 0]
            ELSE LET b == ScanInt(Tail(a.rest))
                 IN IF b.ok THEN [count |-> 2, rows |-> a.val, cols |-> b.val]
                            ELSE [count |-> 1, rows |-> a.val, cols |-> 0]

\* str from its k-th element on
Drop(str, k) == IF k >= Len(str) THEN <<>> ELSE SubSeq(str, k + 1, Len(str))

\* getCursorPosition: rc 0 or -1, the values stored through rows and cols (set tells
\* which were stored), and the input left pending; w is the result of the request write
getCursorPosition(w, q) ==
  IF w # 4
    THEN [rc |-> -1, set |-> 0, rows |-> 0, cols |-> 0, rest |-> q]
    ELSE LET r == ReadReply(q, <<>>)
             buf == r.buf
         IN IF Len(buf) < 2 \/ buf[1] # ESC \/ buf[2] # LBRACKET
              THEN [rc |-> -1, set |-> 0, rows |-> 0, cols |-> 0, rest |-> r.rest]
              ELSE LET sc == Sscanf2(Drop(buf, 2))
                   IN [rc |-> IF sc.count # 2 THEN -1 ELSE 0, set |-> sc.count,
                       rows |-> sc.rows, cols |-> sc.cols, rest |-> r.rest]

\* getWindowSize: the ioctl result is never used (1 || ...), the fallback always runs;
\* w1 is the result of the corner-move write
getWindowSize(w1, w2, q) ==
  IF w1 # 12
    THEN [rc |-> -1, set |-> 0, rows |-> 0, cols |-> 0, rest |-> q]
    ELSE getCursorPosition(w2, q)

(* ---------------- terminal replies drawn for startup ---------------- *)
\* decimal digits of n
RECURSIVE Dec(_)
Dec(n) == IF n < 10 THEN <<CH_0 + n>> ELSE Append(Dec(n \div 10), CH_0 + (n % 10))

Dims == 0 .. MaxDim

ExactReply(r, c) == <<ESC, LBRACKET>> \o Dec(r) \o <<SEMI>> \o Dec(c) \o <<CAP_R>>

Replies ==
  {ExactReply(r, c) : r \in Dims, c \in Dims}
  \cup {<<ESC, LBRACKET>> \o Dec(r) \o <<SEMI>> \o Dec(c) : r \in Dims, c \in Dims}
  \cup {<<ESC, LBRACKET>> \o Dec(MaxDim) \o <<SEMI>> \o Dec(MaxDim) \o <<CH_x, CAP_R>>,
        <<ESC, LBRACKET, CH_SP>> \o Dec(MaxDim) \o <<SEMI>> \o Dec(MaxDim) \o <<CAP_R>>,
        ExactReply(MaxDim, MaxDim) \o <<CH_x>>,
        <<>>, <<ESC>>, <<ESC, LBRACKET>>, <<CAP_R>>,
        <<ESC, LBRACKET>> \o Dec(MaxDim),
        <<ESC, LBRACKET>> \o Dec(MaxDim) \o <<SEMI>>,
        <<ESC, LBRACKET>> \o Dec(MaxDim) \o <<SEMI, CAP_R>>,
        <<ESC, LBRACKET, SEMI>> \o Dec(MaxDim) \o <<CAP_R>>,
        <<ESC, LBRACKET>> \o Dec(MaxDim) \o <<CH_x>> \o Dec(MaxDim) \o <<CAP_R>>,
        <<LBRACKET>> \o Dec(MaxDim) \o <<SEMI>> \o Dec(MaxDim) \o <<CAP_R>>,
        <<ESC, CAP_O>> \o Dec(MaxDim) \o <<SEMI>> \o Dec(MaxDim) \o <<CAP_R>>,
        <<CH_x>> \o ExactReply(MaxDim, MaxDim)}

\* results of write(2) for a request of n bytes: all written, short, or failed
WriteResults(n) == {n, n - 1, -1}

(* ---------------- editorOpen ---------------- *)
\* while (linelen > 0 && line ends in '\n' or '\r') linelen--
RECURSIVE StripEol(_)
StripEol(line) ==
  IF Len(line) > 0 /\ line[Len(line)] \in {CH_LF, CH_CR}
    THEN StripEol(SubSeq(line, 1, Len(line) - 1))
    ELSE line

\* first lines getline may return: text of growing length, with each line ending
Text(n) == [i \in 1 .. n |-> 96 + i]
FirstLines ==
  {Text(n) \o e : n \in 0 .. MaxLine, e \in {<<>>, <<CH_LF>>, <<CH_CR, CH_LF>>}} \ {<<>>}

\* a reply of the exact form ESC [ <digits> ; <digits> R
IsExact(rep) ==
  /\ Len(rep) >= 6
  /\ rep[1] = ESC /\ rep[2] = LBRACKET /\ rep[Len(rep)] = CAP_R
  /\ \E i \in 4 .. Len(rep) - 2 :
       /\ rep[i] = SEMI
       /\ \A j \in 3 .. i - 1 : rep[j] \in Digits
       /\ \A j \in i + 1 .. Len(rep) - 1 : rep[j] \in Digits

(* ---------------- editorDrawRows, editorRefreshScreen ---------------- *)
\* "Kilo editor -- version " KILO_VERSION, as snprintf leaves it in welcome[80]
Welcome ==
  <<75, 105, 108, 111, 32, 101, 100, 105, 116, 111, 114, 32, 45, 45, 32, 118, 101, 114, 115, 105, 111, 110, 32, 48, 46, 48, 46, 49>>

Min(a, b) == IF a < b THEN a ELSE b

\* n copies of the byte b
Rep(b, n) == [i \in 1 .. n |-> b]

\* int printed by %d
DecInt(n) == IF n < 0 THEN <<CH_MINUS>> \o Dec(0 - n) ELSE Dec(n)

\* variant: the banner is drawn whatever numrows is and a text row is appended whole
DrawRow_whole(y, e) ==
  IF y >= e.numrows
    THEN IF y = e.screenrows \div 3
           THEN LET welcomelen == Min(Len(Welcome), e.screencols)
                    padding == (e.screencols - welcomelen) \div 2
                IN (IF padding # 0 THEN <<TILDE>> \o Rep(CH_SP, padding - 1) ELSE <<>>)
                   \o SubSeq(Welcome, 1, welcomelen)
           ELSE <<TILDE>>
    ELSE e.row

\* what editorDrawRows appends for screen row y, before the clear-line directive
DrawRow(y, e) ==
  IF y >= e.numrows
    THEN IF e.numrows = 0 /\ y = e.screenrows \div 3
           THEN LET welcomelen == Min(Len(Welcome), e.screencols)
                    padding == (e.screencols - welcomelen) \div 2
                IN (IF padding # 0 THEN <<TILDE>> \o Rep(CH_SP, padding - 1) ELSE <<>>)
                   \o SubSeq(Welcome, 1, welcomelen)
           ELSE <<TILDE>>
    ELSE SubSeq(e.row, 1, Min(Len(e.row), e.screencols))

\* the loop of editorDrawRows from row y on
RECURSIVE DrawRows(_, _)
DrawRows(y, e) ==
  IF y >= e.screenrows
    THEN <<>>
    ELSE DrawRow(y, e) \o <<ESC, LBRACKET, 75>>
         \o (IF y < e.screenrows - 1 THEN <<CH_CR, CH_LF>> ELSE <<>>)
         \o DrawRows(y + 1, e)

\* the buffer editorRefreshScreen hands to its one write
Frame(e) ==
  <<ESC, LBRACKET, 63, 50, 53, 108>> \o <<ESC, LBRACKET, CH_H>>
  \o DrawRows(0, e)
  \o <<ESC, LBRACKET>> \o DecInt(e.cy + 1) \o <<SEMI>> \o DecInt(e.cx + 1) \o <<CH_H>>
  \o <<ESC, LBRACKET, 63, 50, 53, 104>>

\* struct editorConfig as the compositor reads it
Config ==
  [cx |-> cx, cy |-> cy, screenrows |-> screenrows, screencols |-> screencols,
   numrows |-> numrows, row |-> row]

(* ---------------- die, exit ---------------- *)
\* variant: the two writes of die are swapped
DieWrites_swapped == <<"home", "clear", "perror">>

\* die: write "\x1b[2J", write "\x1b[H", perror; then exit(1)
DieWrites == <<"clear", "home", "perror">>

\* the two writes of the Ctrl-Q case, before exit(0)
QuitWrites == <<"clear", "home">>

\* variant: the handler is registered before tcgetattr is checked
HookOnCapture_always(getOk) == TRUE

\* atexit(disableRawMode) is reached only past the tcgetattr check
HookOnCapture(getOk) == getOk

\* variant: the Ctrl-Q case breaks out of the switch without exit
AfterKey_stay(key) == "refresh"

\* case CTRL_KEY('q') leaves the loop through exit; every other key returns to it
AfterKey(key) == IF key = CTRL_KEY(CH_q) THEN "exit" ELSE "refresh"

\* exit called again from the atexit handler is undefined: the C library either
\* goes on with the remaining handlers and ends with the new status, or aborts
ReenteredExit == {"done", "crashed"}

(* ---------------- initial state ---------------- *)
Init ==
  /\ pc = "start"
  /\ tty \in InitialTermios
  /\ tty0 = tty
  /\ captured = FALSE
  /\ orig_termios = ZeroTermios
  /\ hooked = FALSE
  /\ cx = 0 /\ cy = 0 /\ screenrows = 0 /\ screencols = 0 /\ numrows = 0 /\ row = <<>>
  /\ tin = <<>> /\ ein = <<>>
  /\ shared \in BOOLEAN
  /\ charSigned = TRUE
  /\ lastKey = NoKey
  /\ idle = 0
  /\ firstRead = NoRead
  /\ trail = <<>>
  /\ status = -1
  /\ captures = 0 /\ restores = 0
  /\ probe = NoProbe
  /\ frames = 0
  /\ frame = <<>>

(* ---------------- startup ---------------- *)
\* enableRawMode, with the outcomes of tcgetattr and tcsetattr
EnableRawMode ==
  /\ pc = "start"
  /\ \E getOk \in BOOLEAN, setOk \in BOOLEAN :
       /\ captures' = captures + 1
       /\ captured' = getOk
       /\ hooked' = HookOnCapture(getOk)
       /\ orig_termios' = IF getOk THEN tty ELSE orig_termios
       /\ IF getOk /\ setOk
            THEN /\ tty' = MakeRaw(orig_termios')
                 /\ tin' = <<>>              \* TCSAFLUSH discards pending input
                 /\ pc' = "init"
                 /\ UNCHANGED <<trail, status>>
            ELSE /\ trail' = trail \o DieWrites
                 /\ status' = 1
                 /\ pc' = "exit"
                 /\ UNCHANGED <<tty, tin>>
  /\ UNCHANGED <<editor, ein, shared, charSigned, lastKey, idle, firstRead, restores, probe, frames, frame, tty0>>

\* initEditor, with the results of the two writes and the terminal's reply
InitEditor ==
  /\ pc = "init"
  /\ \E w1 \in WriteResults(12), w2 \in WriteResults(4), reply \in Replies :
       LET asked == w1 = 12 /\ w2 = 4
           g == getWindowSize(w1, w2, IF asked THEN tin \o reply ELSE tin)
       IN /\ cx' = 0 /\ cy' = 0 /\ numrows' = 0
          /\ screenrows' = IF g.set >= 1 THEN g.rows ELSE screenrows
          /\ screencols' = IF g.set >= 2 THEN g.cols ELSE screencols
          /\ tin' = g.rest
          /\ probe' = [corner |-> w1 = 12, request |-> w2 = 4,
                       exact |-> asked /\ IsExact(reply), ran |-> TRUE]
          /\ IF g.rc = -1
               THEN /\ trail' = trail \o DieWrites
                    /\ status' = 1
                    /\ pc' = "exit"
               ELSE /\ pc' = "open"
                    /\ UNCHANGED <<trail, status>>
  /\ UNCHANGED <<tty0, captured, frame, tty, orig_termios, hooked, row, ein, shared, charSigned, lastKey, idle, firstRead,
                 captures, restores, frames>>

\* main's argc test and editorOpen
EditorOpen ==
  /\ pc = "open"
  /\ \/ \* argc < 2, or the file is empty and getline returns -1
        /\ pc' = "refresh"
        /\ UNCHANGED <<numrows, row, trail, status>>
     \/ \* fopen fails
        /\ trail' = trail \o DieWrites
        /\ status' = 1
        /\ pc' = "exit"
        /\ UNCHANGED <<numrows, row>>
     \/ \E line \in FirstLines :
          /\ row' = StripEol(line)
          /\ numrows' = 1
          /\ pc' = "refresh"
          /\ UNCHANGED <<trail, status>>
  /\ UNCHANGED <<tty0, captured, frame, tty, orig_termios, hooked, cx, cy, screenrows, screencols, tin, ein, shared,
                 charSigned, lastKey, idle, firstRead, captures, restores, probe, frames>>

(* ---------------- input typed at the terminal ---------------- *)
\* key presses and fragments of them, as they may be pending on the terminal at once
Bursts ==
  {<<CTRL_KEY(CH_q)>>, <<CH_x>>, <<ESC>>, <<ESC, LBRACKET>>, <<ESC, CH_x>>,
   <<ESC, CH_x, CH_x>>, <<ESC, LBRACKET, CH_0 + 5>>, <<ESC, LBRACKET, CH_A, CH_x>>}
  \cup {<<ESC, LBRACKET, l>> : l \in {CH_A, CH_B, CH_C, CH_D, CH_H, CH_F, CH_x}}
  \cup {<<ESC, CAP_O, l>> : l \in {CH_H, CH_F, CH_x}}
  \cup {<<ESC, LBRACKET, d, TILDE>> : d \in {CH_0 + 2, CH_0 + 3, CH_0 + 5, CH_0 + 6, CH_0 + 7}}
  \cup {<<ESC, LBRACKET, CH_0 + 5, CH_x>>}

\* the same when descriptor 2 is another device: what each descriptor holds
SplitBursts ==
  {[tin |-> <<>>, ein |-> <<CH_x>>],
   [tin |-> <<>>, ein |-> <<CTRL_KEY(CH_q)>>],
   [tin |-> <<>>, ein |-> <<ESC>>],
   [tin |-> <<CH_x>>, ein |-> <<>>],
   [tin |-> <<LBRACKET, CH_A>>, ein |-> <<ESC>>],
   [tin |-> <<LBRACKET, CH_0 + 5>>, ein |-> <<ESC, TILDE>>],
   [tin |-> <<LBRACKET, CH_0 + 5, TILDE>>, ein |-> <<ESC>>],
   [tin |-> <<ESC, LBRACKET, CH_A>>, ein |-> <<CH_x>>]}

Arrivals ==
  IF shared THEN {[tin |-> b, ein |-> <<>>] : b \in Bursts} ELSE SplitBursts

\* input arrives while no unread input is pending. Arrival during a refresh is not
\* told apart from arrival right after it: editorRefreshScreen reads no input
Type ==
  /\ pc = "readkey"
  /\ tin = <<>> /\ ein = <<>>
  /\ \E a \in Arrivals : tin' = a.tin /\ ein' = a.ein
  /\ UNCHANGED <<tty0, captured, frame, pc, tty, orig_termios, hooked, editor, shared, charSigned, lastKey, idle, firstRead,
                 trail, status, captures, restores, probe, frames>>

(* ---------------- the loop of main ---------------- *)
\* editorRefreshScreen: one frame is written; the key of the previous iteration (the
\* local c of editorProcessKeypress) is gone by now
Refresh ==
  /\ pc = "refresh"
  /\ frames' = 1
  /\ frame' = Frame(Config)
  /\ pc' = "readkey"
  /\ lastKey' = NoKey
  /\ UNCHANGED <<tty0, captured, tty, orig_termios, hooked, editor, streams, idle, firstRead, trail, status,
                 captures, restores, probe>>

\* the queue the first read of editorReadKey takes its byte from
FirstQueue == IF shared THEN tin ELSE ein

\* what the first read returns when no byte is pending: 0 after the VTIME wait, or -1
EmptyReads ==
  {[n |-> 0, errno |-> "none"], [n |-> -1, errno |-> "EAGAIN"], [n |-> -1, errno |-> "EIO"]}

\* variant: every failing read is fatal
ReadDies_any(r) == r.n = -1

\* if (nread == -1 && errno != EAGAIN) die("read")
ReadDies(r) == r.n = -1 /\ r.errno # "EAGAIN"

\* variant: an empty read makes editorReadKey return to main's loop
AfterEmptyRead_return == "refresh"

\* while ((nread = read(...)) != 1): after a read without a byte the loop reads again
AfterEmptyRead == "readkey"

\* editorReadKey's first read returns 0 bytes, or -1 with EAGAIN: the while loop goes round
ReadIdle ==
  /\ pc = "readkey"
  /\ FirstQueue = <<>>
  /\ idle < MaxIdle
  /\ \E r \in EmptyReads : ~ReadDies(r) /\ firstRead' = r
  /\ idle' = idle + 1
  /\ pc' = AfterEmptyRead
  /\ UNCHANGED <<tty0, captured, frame, tty, orig_termios, hooked, editor, streams, lastKey, trail, status,
                 captures, restores, probe, frames>>

\* editorReadKey's first read returns -1 with another errno: die("read"). The read
\* takes no byte and the process ends, so failures with input pending add nothing
ReadError ==
  /\ pc = "readkey"
  /\ FirstQueue = <<>>
  /\ \E r \in EmptyReads : ReadDies(r) /\ firstRead' = r
  /\ trail' = trail \o DieWrites
  /\ status' = 1
  /\ pc' = "exit"
  /\ lastKey' = NoKey
  /\ idle' = 0
  /\ UNCHANGED <<tty0, captured, frame, tty, orig_termios, hooked, editor, streams, captures, restores, probe, frames>>

\* editorProcessKeypress once the first read of editorReadKey has a byte
ProcessKeypress ==
  /\ pc = "readkey"
  /\ FirstQueue # <<>>
  /\ \E bad \in BadReads :
     LET k == editorReadKey([tin |-> tin, ein |-> ein], shared, charSigned, bad)
         e == [cx |-> cx, cy |-> cy, screenrows |-> screenrows, screencols |-> screencols]
         quit == k.key = CTRL_KEY(CH_q)
         d == IF quit THEN e ELSE Dispatch(k.key, e)
     IN /\ lastKey' = [bytes |-> k.bytes, short |-> k.short, key |-> k.key,
                        err |-> k.err, src |-> k.src]
        /\ tin' = k.s.tin
        /\ ein' = k.s.ein
        /\ cx' = d.cx
        /\ cy' = d.cy
        /\ trail' = IF quit THEN trail \o QuitWrites ELSE trail
        /\ status' = IF quit THEN 0 ELSE status
        /\ pc' = AfterKey(k.key)
  /\ idle' = 0
  /\ firstRead' = NoRead
  /\ UNCHANGED <<tty0, captured, frame, tty, orig_termios, hooked, screenrows, screencols, numrows, row, shared,
                 charSigned, captures, restores, probe, frames>>

(* ---------------- exit ---------------- *)
\* exit with no handler registered
ExitPlain ==
  /\ pc = "exit"
  /\ ~hooked
  /\ trail' = Append(trail, "exit")
  /\ pc' = "done"
  /\ UNCHANGED <<tty0, captured, frame, tty, orig_termios, hooked, editor, streams, lastKey, idle, firstRead, status,
                 captures, restores, probe, frames>>

\* exit runs disableRawMode and tcsetattr succeeds
ExitRestore ==
  /\ pc = "exit"
  /\ hooked
  /\ restores' = restores + 1
  /\ tty' = RestoreArg(orig_termios, tty)
  /\ tin' = <<>>                             \* TCSAFLUSH discards pending input
  /\ trail' = trail \o <<"restore", "exit">>
  /\ pc' = "done"
  /\ UNCHANGED <<tty0, captured, frame, orig_termios, hooked, editor, ein, shared, charSigned, lastKey, idle, firstRead, status, captures,
                 probe, frames>>

\* exit runs disableRawMode, tcsetattr fails and die calls exit(1) from the handler
ExitRestoreFails ==
  /\ pc = "exit"
  /\ hooked
  /\ restores' = restores + 1
  /\ \E end \in ReenteredExit :
       /\ pc' = end
       /\ trail' = trail \o <<"restore">> \o DieWrites
                     \o (IF end = "done" THEN <<"exit">> ELSE <<"abort">>)
  /\ status' = 1
  /\ UNCHANGED <<tty0, captured, frame, tty, orig_termios, hooked, editor, streams, lastKey, idle, firstRead, captures,
                 probe, frames>>

Next ==
  \/ EnableRawMode
  \/ InitEditor
  \/ EditorOpen
  \/ Type
  \/ Refresh
  \/ ReadIdle
  \/ ReadError
  \/ ProcessKeypress
  \/ ExitPlain
  \/ ExitRestore
  \/ ExitRestoreFails

Spec == Init /\ [][Next]_vars

(* ---------------- the decoder on drawn input ---------------- *)
Bytes == 0 .. 255

\* bytes drawn at each position of an escape sequence
PosBytes(i) ==
  CASE i = 2 -> {LBRACKET, CAP_O, CH_x, ESC}
    [] i = 3 -> Digits \cup {CH_A, CH_B, CH_C, CH_D, CH_F, CH_H, CH_x, TILDE, ESC, LBRACKET}
    [] OTHER -> {TILDE, CH_x, CH_A}

RECURSIVE EscStreams(_)
EscStreams(n) ==
  IF n = 1 THEN {<<ESC>>} ELSE {Append(st, b) : st \in EscStreams(n - 1), b \in PosBytes(n)}

\* pending input: any single byte, any non-ESC byte with a byte after it, and the
\* escape sequences and their fragments up to MaxStream bytes
DecodeStreams ==
  {<<b>> : b \in Bytes}
  \cup {<<b, t>> : b \in Bytes \ {ESC}, t \in {CH_x, ESC}}
  \cup UNION {EscStreams(n) : n \in 1 .. MaxStream}

\* the loop of main after a startup on a cooked terminal, with input pending
InitDecode ==
  /\ pc = "readkey"
  /\ orig_termios = CookedTermios
  /\ tty = MakeRaw(CookedTermios)
  /\ tty0 = CookedTermios
  /\ captured = TRUE
  /\ hooked = TRUE
  /\ screenrows = MaxDim /\ screencols = MaxDim
  /\ cx \in {0, MaxDim - 1} /\ cy \in {0, MaxDim - 1}
  /\ numrows = 0 /\ row = <<>>
  /\ tin \in DecodeStreams /\ ein = <<>>
  /\ shared = TRUE
  /\ charSigned \in BOOLEAN
  /\ lastKey = NoKey
  /\ idle = 0
  /\ firstRead = NoRead
  /\ trail = <<>>
  /\ status = -1
  /\ captures = 1 /\ restores = 0
  /\ probe = [corner |-> TRUE, request |-> TRUE, exact |-> TRUE, ran |-> TRUE]
  /\ frames = 1
  /\ frame = Frame(Config)

NextDecode ==
  \/ Refresh
  \/ ProcessKeypress
  \/ ExitRestore
  \/ ExitRestoreFails

SpecDecode == InitDecode /\ [][NextDecode]_vars

(* ================= properties ================= *)
Ended == pc \in {"done", "crashed"}
Leaving == pc \in {"exit", "done", "crashed"}
QuitRead == lastKey.key = CTRL_KEY(CH_q)
Died == \E i \in 1 .. Len(trail) : trail[i] = "perror"
IsPrefix(a, b) == Len(a) <= Len(b) /\ SubSeq(b, 1, Len(a)) = a

\* C1: at every refresh the cursor lies inside the window, whatever geometry
\* startup accepted: 0 <= cx < screencols and 0 <= cy < screenrows
C1_ViewportAtRefresh ==
  pc = "refresh" => (0 <= cx /\ cx < screencols /\ 0 <= cy /\ cy < screenrows)

\* C2: when the process has ended after raw mode was applied and the restoring
\* tcsetattr succeeded, the terminal has the attributes it had before raw mode,
\* which are the captured snapshot
RestoreSucceeded ==
  Len(trail) >= 2 /\ trail[Len(trail) - 1] = "restore" /\ trail[Len(trail)] = "exit"
C2_RestoredAtEnd ==
  (Ended /\ probe.ran /\ RestoreSucceeded) => (tty = orig_termios /\ tty = tty0)
C2_Witness ==
  /\ pc = "done" /\ probe.ran /\ RestoreSucceeded /\ QuitRead
  /\ tty = tty0 /\ tty0 # MakeRaw(tty0)

\* C3: tcgetattr is called once; a process that ended after a successful capture
\* called the restoring tcsetattr exactly once, also when die came from
\* enableRawMode or from disableRawMode; after a failed capture it is never called
C3_CaptureOnceRestoreOnce ==
  /\ captures <= 1 /\ restores <= 1
  /\ (pc # "start" => captures = 1)
  /\ (Ended /\ captured => restores = 1)
  /\ (~captured => restores = 0)
  /\ (~Leaving => restores = 0)
C3_Witness ==
  /\ pc = "done" /\ captured /\ ~probe.ran /\ restores = 1 /\ status = 1
  /\ trail = DieWrites \o <<"restore">> \o DieWrites \o <<"exit">>

\* C4: once the quit key is read the process only shuts down, in the order clear
\* screen, cursor to origin, restore of the attributes, process end; no frame is
\* written and no key is read after it
QuitOrders ==
  {<<"clear", "home", "restore", "exit">>,
   <<"clear", "home", "restore", "clear", "home", "perror", "exit">>,
   <<"clear", "home", "restore", "clear", "home", "perror", "abort">>}
C4_QuitShutdownOrder ==
  /\ QuitRead =>
       /\ Leaving
       /\ \E t \in QuitOrders : IsPrefix(trail, t) /\ (Ended <=> trail = t)
       /\ (pc = "exit" => trail = <<"clear", "home">>)
  /\ trail # <<>> => Leaving
C4_Witness ==
  QuitRead /\ pc = "done" /\ trail = <<"clear", "home", "restore", "exit">> /\ frames = 1

\* C5: a short corner-move write, a short request write, a reply not of the exact
\* form ESC [ rows ; cols R, or zero columns end the process through die with no
\* frame written; a frame is written only after an exact reply with screencols >= 1
C5_FatalOnBadGeometry ==
  /\ (probe.ran /\ (~probe.corner \/ ~probe.request \/ ~probe.exact \/ screencols = 0))
       => (Leaving /\ Died /\ frames = 0 /\ (pc = "done" => status # 0))
  /\ frames = 1 => (probe.exact /\ screencols >= 1)

\* C6 as claimed: the exit status is 0 exactly when the quit key ended the process;
\* every die writes clear screen, then cursor to origin, and ends with a non-zero status
DieWritesInOrder ==
  \A i \in 1 .. Len(trail) :
    trail[i] = "perror" => (i >= 3 /\ trail[i - 2] = "clear" /\ trail[i - 1] = "home")
C6_StatusZeroIffQuit ==
  /\ pc = "done" => (status = 0 <=> QuitRead)
  /\ DieWritesInOrder
  /\ (Died /\ pc = "done") => status # 0

\* C6 amended: the exit status is 0 exactly when the quit key ended the process and
\* die was never called (the restore in the exit handler succeeded); every die writes
\* clear screen, then cursor to origin, and a process that died never exits with 0
C6_StatusZeroIffCleanQuit ==
  /\ pc = "done" => (status = 0 <=> (QuitRead /\ ~Died))
  /\ DieWritesInOrder
  /\ Died => (Leaving /\ status = 1)
  /\ pc = "crashed" => Died
C6_Witness ==
  pc = "done" /\ QuitRead /\ Died /\ status = 1

(* ---------------- the decoder's reference table ---------------- *)
RefTable ==
  {<<<<ESC, LBRACKET, 49, TILDE>>, HOME_KEY>>, <<<<ESC, LBRACKET, 55, TILDE>>, HOME_KEY>>,
   <<<<ESC, LBRACKET, 51, TILDE>>, DEL_KEY>>,
   <<<<ESC, LBRACKET, 52, TILDE>>, END_KEY>>, <<<<ESC, LBRACKET, 56, TILDE>>, END_KEY>>,
   <<<<ESC, LBRACKET, 53, TILDE>>, PAGE_UP>>, <<<<ESC, LBRACKET, 54, TILDE>>, PAGE_DOWN>>,
   <<<<ESC, LBRACKET, 65>>, ARROW_UP>>, <<<<ESC, LBRACKET, 66>>, ARROW_DOWN>>,
   <<<<ESC, LBRACKET, 67>>, ARROW_RIGHT>>, <<<<ESC, LBRACKET, 68>>, ARROW_LEFT>>,
   <<<<ESC, LBRACKET, 72>>, HOME_KEY>>, <<<<ESC, LBRACKET, 70>>, END_KEY>>,
   <<<<ESC, CAP_O, 72>>, HOME_KEY>>, <<<<ESC, CAP_O, 70>>, END_KEY>>}
Recognised == {p[1] : p \in RefTable}

\* a step in which editorReadKey returned
KeyStep == pc = "readkey" /\ lastKey' # NoKey

\* C7: a call that read a sequence of the reference table returns the table's event
C7_DecoderTable ==
  \A p \in RefTable : lastKey.bytes = p[1] => (lastKey.key = p[2] /\ ~lastKey.short)
C7_Witness ==
  lastKey.bytes = <<ESC, LBRACKET, 53, TILDE>> /\ lastKey.key = PAGE_UP /\ pc = "refresh"

\* C8: a call whose first byte b is not ESC returns b as a character, takes that one
\* byte from the descriptor it was read from and nothing more, and its value is no
\* navigation code
C8_PlainByte ==
  [][(KeyStep /\ Head(FirstQueue) # ESC) =>
       /\ lastKey'.bytes = <<Head(FirstQueue)>>
       /\ ~lastKey'.short
       /\ lastKey'.key \in {Head(FirstQueue), Head(FirstQueue) - 256}
       /\ (lastKey'.key < 0 <=> (charSigned /\ Head(FirstQueue) >= 128))
       /\ lastKey'.key \notin NavKeys
       /\ IF shared THEN tin' = Tail(tin) /\ ein' = ein
                    ELSE ein' = Tail(ein) /\ tin' = tin]_vars
C8_Witness ==
  lastKey.bytes = <<HIGH_BYTE>> /\ lastKey.key = HIGH_BYTE - 256 /\ pc = "refresh"

\* C9: ESC with nothing after it, ESC '[' with nothing after it, and ESC '[' digit
\* with nothing after it each make the call return the escape value, and the loop goes
\* on; the reads that find the input ended are the ones that report no failure
CutOff(q) ==
  \/ q = <<ESC>>
  \/ Len(q) = 2 /\ q[1] = ESC
  \/ Len(q) = 3 /\ q[1] = ESC /\ q[2] = LBRACKET /\ q[3] \in Digits
C9_CutOffSequence ==
  [][KeyStep =>
       /\ lastKey'.short => (lastKey'.key = ESC /\ pc' = "refresh")
       /\ (shared /\ CutOff(tin) /\ ~lastKey'.err) =>
            (lastKey'.short /\ lastKey'.bytes = tin /\ tin' = <<>>)]_vars
C9_Witness ==
  /\ lastKey.bytes = <<ESC, LBRACKET, 53>> /\ lastKey.short /\ lastKey.key = ESC
  /\ pc = "refresh" /\ tin = <<>>

\* C10: a call that read an escape sequence outside the reference table returns the
\* escape value, the process goes on, and the dispatch changes no editor state
C10_UnknownSequence ==
  [][(KeyStep /\ lastKey'.bytes[1] = ESC /\ lastKey'.bytes \notin Recognised) =>
       /\ lastKey'.key = ESC
       /\ pc' = "refresh"
       /\ UNCHANGED <<editor, tty, orig_termios, hooked, trail, status, frames>>]_vars
C10_Witness ==
  /\ lastKey.bytes = <<ESC, LBRACKET, 50, TILDE>> /\ lastKey.key = ESC
  /\ pc = "refresh" /\ cx = MaxDim - 1 /\ cy = MaxDim - 1

\* the bytes at the head of the pending input q that the decoder has to look at to
\* resolve one key event: one plain byte; ESC and the byte that shows no sequence
\* follows; ESC, the introducer and the letter; ESC '[' digit and the terminator
Needed(q) ==
  IF q[1] # ESC \/ Len(q) < 2 THEN 1
  ELSE IF q[2] \notin {LBRACKET, CAP_O} \/ Len(q) < 3 THEN 2
  ELSE IF q[2] = LBRACKET /\ q[3] \in Digits /\ Len(q) >= 4 THEN 4
  ELSE 3

\* C11: a call of editorReadKey on the terminal consumes no byte beyond the ones needed
\* to resolve one key event, and the bytes after them are left, in order, for the next call
C11_MinimalRead ==
  [][(KeyStep /\ shared) =>
       /\ Len(lastKey'.bytes) <= Needed(tin)
       /\ tin' = SubSeq(tin, Len(lastKey'.bytes) + 1, Len(tin))]_vars

\* a step in which the first read of editorReadKey came back without a byte and
\* without a fatal error
EmptyReadStep == pc = "readkey" /\ idle' > idle

\* C12 as stated: when the first read of editorReadKey returns without a byte, the
\* call returns and main's loop goes to its next refresh
C12_IdleReturnsToLoop ==
  [][EmptyReadStep => pc' = "refresh"]_vars

\* C12: when the first read of editorReadKey returns without a byte, the call stays in
\* its read loop: no frame is written and no editor state changes; the call returns to
\* main's loop only with at least one byte read
C12_IdleWaitsInDecoder ==
  [][/\ EmptyReadStep =>
          (pc' = "readkey" /\ UNCHANGED <<frame, frames, lastKey, editor, trail, status>>)
     /\ (pc = "readkey" /\ pc' = "refresh") => Len(lastKey'.bytes) >= 1]_vars
C12_Witness ==
  pc = "readkey" /\ idle >= 1 /\ firstRead.n = 0 /\ frames = 1 /\ lastKey = NoKey

\* the coordinate v after one step by d in a range of n places
Stepped(v, d, n) == IF v + d \in 0 .. n - 1 THEN v + d ELSE v

\* C13: an arrow key moves its coordinate by exactly one place when the place reached
\* lies in the window and leaves it alone otherwise; the other coordinate never changes
C13_SingleStepClamped ==
  [][KeyStep =>
       /\ lastKey'.key = ARROW_LEFT => (cx' = Stepped(cx, -1, screencols) /\ cy' = cy)
       /\ lastKey'.key = ARROW_RIGHT => (cx' = Stepped(cx, 1, screencols) /\ cy' = cy)
       /\ lastKey'.key = ARROW_UP => (cy' = Stepped(cy, -1, screenrows) /\ cx' = cx)
       /\ lastKey'.key = ARROW_DOWN => (cy' = Stepped(cy, 1, screenrows) /\ cx' = cx)]_vars
C13_Witness ==
  /\ lastKey.key = ARROW_RIGHT /\ pc = "refresh"
  /\ screencols = MaxDim /\ cx = MaxDim - 1 /\ cy = 0

\* C14: from any cursor place Page Down leaves cy = screenrows - 1, Page Up leaves
\* cy = 0, Home leaves cx = 0 and End leaves cx = screencols - 1; the other
\* coordinate is unchanged
C14_JumpKeys ==
  [][KeyStep =>
       /\ lastKey'.key = PAGE_DOWN => (cy' = screenrows - 1 /\ cx' = cx)
       /\ lastKey'.key = PAGE_UP => (cy' = 0 /\ cx' = cx)
       /\ lastKey'.key = HOME_KEY => (cx' = 0 /\ cy' = cy)
       /\ lastKey'.key = END_KEY => (cx' = screencols - 1 /\ cy' = cy)]_vars

(* ---- the frame on the terminal, taken apart ---- *)
HideCursor == <<ESC, LBRACKET, 63, 50, 53, 108>>
ShowCursor == <<ESC, LBRACKET, 63, 50, 53, 104>>
CursorHome == <<ESC, LBRACKET, CH_H>>
ClearToEol == <<ESC, LBRACKET, 75>>
CursorTo(r, c) == <<ESC, LBRACKET>> \o DecInt(r) \o <<SEMI>> \o DecInt(c) \o <<CH_H>>
IsSuffix(a, b) == Len(a) <= Len(b) /\ SubSeq(b, Len(b) - Len(a) + 1, Len(b)) = a

\* the frame just written and not yet followed by a key
Shown == pc = "readkey" /\ frames = 1

\* the bytes of the frame between its first two and its last two directives
RowBytes ==
  SubSeq(frame, Len(HideCursor) + Len(CursorHome) + 1,
         Len(frame) - Len(CursorTo(cy + 1, cx + 1)) - Len(ShowCursor))

\* b cut at every CR LF
RECURSIVE SplitRows(_, _)
SplitRows(b, cur) ==
  IF b = <<>> THEN <<cur>>
  ELSE IF Len(b) >= 2 /\ b[1] = CH_CR /\ b[2] = CH_LF
    THEN <<cur>> \o SplitRows(SubSeq(b, 3, Len(b)), <<>>)
    ELSE SplitRows(Tail(b), Append(cur, b[1]))
ScreenLines == SplitRows(RowBytes, <<>>)

\* the banner row as the claim describes it
BannerRow ==
  LET banner == SubSeq(Welcome, 1, Min(Len(Welcome), screencols))
      padding == (screencols - Len(banner)) \div 2
  IN (IF padding = 0 THEN <<>> ELSE <<TILDE>> \o Rep(CH_SP, padding - 1)) \o banner

\* C15: a frame drawn with no text row has the banner row at index screenrows / 3, a
\* bare tilde on every other row, the clear-to-end-of-line directive after every row
\* and exactly screenrows - 1 CR LF separators
C15_EmptyFileFrame ==
  (Shown /\ numrows = 0) =>
     /\ Len(ScreenLines) - 1 = screenrows - 1
     /\ \A y \in 0 .. screenrows - 1 :
          /\ y + 1 <= Len(ScreenLines)
          /\ ScreenLines[y + 1] =
               (IF y = screenrows \div 3 THEN BannerRow ELSE <<TILDE>>) \o ClearToEol

C17_FrameEnvelope ==
  /\ pc = "readkey" => frames = 1
  /\ Shown =>
       /\ IsPrefix(HideCursor \o CursorHome, frame)
       /\ IsSuffix(CursorTo(cy + 1, cx + 1) \o ShowCursor, frame)
       /\ 1 <= cy + 1 /\ cy + 1 <= screenrows
       /\ 1 <= cx + 1 /\ cx + 1 <= screencols

\* C18: once the loop of main runs, a refresh changes no editor state, and a key
\* changes neither the window size, the text row, its count nor the saved terminal
\* attributes; cx and cy change only with a navigation key other than Delete
C18_FrameCondition ==
  [][/\ pc = "refresh" => UNCHANGED <<editor, orig_termios>>
     /\ pc = "readkey" =>
          /\ UNCHANGED <<screenrows, screencols, numrows, row, orig_termios>>
          /\ <<cx, cy>>' # <<cx, cy>> =>
               (KeyStep /\ lastKey'.key \in NavKeys \ {DEL_KEY})]_vars
C18_Witness ==
  /\ pc = "refresh" /\ lastKey.key = DEL_KEY
  /\ cx = MaxDim - 1 /\ cy = MaxDim - 1 /\ numrows = 1

\* a step in which die ran
Perrors(tr) == Cardinality({i \in 1 .. Len(tr) : tr[i] = "perror"})
DieStep == Perrors(trail') > Perrors(trail)
QuitStep == KeyStep /\ lastKey'.key = CTRL_KEY(CH_q)

\* C19 as stated: no outcome of a read of editorReadKey ends the process or reports
\* an error; but for the quit key the loop goes on, waiting or with a key returned
C19_ReadsNeverFatal ==
  [][(pc = "readkey" /\ ~QuitStep) =>
       (pc' \in {"readkey", "refresh"} /\ UNCHANGED <<trail, status>>)]_vars

\* C19: die runs only for a failing tcgetattr or tcsetattr, a failed window-size
\* resolution, a failing fopen, and a first read of editorReadKey that returns -1 with
\* an errno other than EAGAIN; a first read that returns 0 or -1 with EAGAIN keeps the
\* call waiting, and a later read of the call that returns 0 or -1 makes it return the
\* escape value with the process going on
C19_FatalConditions ==
  [][/\ DieStep =>
          \/ pc \in {"start", "init", "open", "exit"}
          \/ pc = "readkey" /\ firstRead'.n = -1 /\ firstRead'.errno # "EAGAIN"
     /\ EmptyReadStep => (pc' = "readkey" /\ UNCHANGED <<trail, status>>)
     /\ (KeyStep /\ lastKey'.short) =>
          (lastKey'.key = ESC /\ pc' = "refresh" /\ UNCHANGED <<trail, status, editor>>)]_vars
C19_Witness ==
  /\ pc = "refresh" /\ lastKey.err /\ lastKey.bytes = <<ESC, LBRACKET>>
  /\ lastKey.key = ESC /\ trail = <<>>

\* C20: every byte of a key event is read from the one terminal that enableRawMode
\* put into raw mode (standard input); no event is put together from two streams
C20_SingleSource ==
  \A i \in 1 .. Len(lastKey.src) : lastKey.src[i] = "tty"

====
